---- MODULE Spec2Model ----
(***************************************************************************)
(* A model of the data-source crate: the file cache gate (FileCache,       *)
(* fetch_with_cache), the HTTP source with its direct-then-proxy fallback  *)
(* and size ceiling (HttpSource), and the DataSource lookup (Folders,      *)
(* FileMap, StdReadFile).                                                  *)
(*                                                                         *)
(* Option<T> is a sequence of length 0 (None) or 1 (Some).  Byte strings   *)
(* are sequences of small naturals.  Time is counted in ticks, with        *)
(* TicksPerSec ticks to the second, so that Duration::as_secs truncates.   *)
(***************************************************************************)
EXTENDS Integers, Sequences, FiniteSets, TLC

VARIABLES
    now,        \* the system clock, in ticks
    cacheFile,  \* what is at FileCache.cache_file_path on disk
    fc,         \* the FileCache configuration
    persisted,  \* history: bytes the last successful cache write stored, undisturbed since
    http,       \* the HttpSource configuration
    usize_bits, \* width of usize on the build target
    ds,         \* the DataSource
    disk,       \* what is at each path the DataSource can look at
    file_name,  \* the relative name being looked up
    out,        \* observation of the step just taken, Idle after an environment step
    callers     \* concurrent callers of one cached entry: where each is in its call

vars ==
    <<now, cacheFile, fc, persisted, http, usize_bits, ds, disk, file_name, out,
      callers>>

----------------------------------------------------------------------------
(* Bounds *)

MaxTick == 4
MaxInterval == 1
MaxLen == 2
MaxLimit == 2
MaxDirs == 3

(* Widths, scaled down: u64, and usize on a 32-bit target. *)
WideBits == 3
NarrowBits == 2
MaxEntries == 2

(* Sub-second resolution of SystemTime, scaled: as_secs drops the fraction. *)
TicksPerSec == 2

----------------------------------------------------------------------------
(* Option and Result *)

None == <<>>
Some(x) == <<x>>
IsSome(o) == o # <<>>
Unwrap(o) == o[1]

Ok(v) == [tag |-> "Ok", val |-> v, prov |-> None, err |-> "-", dirs |-> <<>>]
OkFrom(v, p) == [tag |-> "Ok", val |-> v, prov |-> p, err |-> "-", dirs |-> <<>>]
Err(e) == [tag |-> "Err", val |-> <<>>, prov |-> None, err |-> e, dirs |-> <<>>]
ErrNFD(d) == [tag |-> "Err", val |-> <<>>, prov |-> None, err |-> "NFD", dirs |-> d]
Panic == [tag |-> "Panic", val |-> <<>>, prov |-> None, err |-> "-", dirs |-> <<>>]

IsOk(r) == r.tag = "Ok"
IsErr(r, e) == r.tag = "Err" /\ r.err = e

\* Byte strings: every length up to MaxLen, filled with one of two byte values.
ByteValues == {1, 2}
Bodies == {[i \in 1..n |-> b] : n \in 0..MaxLen, b \in ByteValues}

----------------------------------------------------------------------------
(* The file system entry at one path *)

Absent == [kind |-> "absent", content |-> <<>>, mtime |-> 0]
RegularFile(b, t) == [kind |-> "file", content |-> b, mtime |-> t]
Directory(t) == [kind |-> "dir", content |-> <<>>, mtime |-> t]

\* std::fs::exists / Path::exists
Exists(f) == f.kind # "absent"

\* std::fs::read: the whole content of a regular file, an io::Error otherwise
FsRead(f) == IF f.kind = "file" THEN Ok(f.content) ELSE Err("I")

\* std::fs::write: create or truncate, then write all the bytes.  fault is
\* "ok", "open" (the file could not be created or opened) or "partial" (the
\* file was truncated and only the first keep bytes got written).
FsWrite(f, bytes, t, fault, keep) ==
    IF f.kind = "dir" \/ fault = "open"
      THEN [ok |-> FALSE, file |-> f]
      ELSE IF fault = "partial" /\ keep < Len(bytes)
        THEN [ok |-> FALSE, file |-> RegularFile(SubSeq(bytes, 1, keep), t)]
        ELSE [ok |-> TRUE, file |-> RegularFile(bytes, t)]

----------------------------------------------------------------------------
(* FileCache *)

CachePath == "cache.bin"

FileCaches ==
    [update_interval_seconds : {None} \cup {Some(n) : n \in 0..MaxInterval},
     cache_file_path : {None, Some(CachePath)}]

\* FileCache::read_cache_file: unwrap of the path, then std::fs::read
read_cache_file(c, f) ==
    IF ~IsSome(c.cache_file_path) THEN Panic ELSE FsRead(f)

\* FileCache::read_cache_file_async
read_cache_file_async(c, f) ==
    IF ~IsSome(c.cache_file_path) THEN Panic ELSE FsRead(f)

\* Mutant: the cache file is opened for appending instead of being truncated.
write_cache_file_Append(c, f, bytes, t, fault, keep) ==
    IF ~IsSome(c.cache_file_path)
      THEN [panic |-> TRUE, ok |-> FALSE, file |-> f]
      ELSE LET w == FsWrite(f, f.content \o bytes, t, fault, keep)
           IN [panic |-> FALSE, ok |-> w.ok, file |-> w.file]

\* FileCache::write_cache_file: unwrap of the path, then std::fs::write;
\* an error is logged and turned into false
write_cache_file(c, f, bytes, t, fault, keep) ==
    IF ~IsSome(c.cache_file_path)
      THEN [panic |-> TRUE, ok |-> FALSE, file |-> f]
      ELSE LET w == FsWrite(f, bytes, t, fault, keep)
           IN [panic |-> FALSE, ok |-> w.ok, file |-> w.file]

\* FileCache::write_cache_file_async
write_cache_file_async(c, f, bytes, t, fault, keep) ==
    IF ~IsSome(c.cache_file_path)
      THEN [panic |-> TRUE, ok |-> FALSE, file |-> f]
      ELSE LET w == FsWrite(f, bytes, t, fault, keep)
           IN [panic |-> FALSE, ok |-> w.ok, file |-> w.file]

\* Mutant: a modification time in the future counts as no time elapsed.
duration_since_Saturating(t, earlier) ==
    IF earlier > t THEN Ok(0) ELSE Ok(t - earlier)

\* SystemTime::duration_since: an error when earlier is later than t
duration_since(t, earlier) ==
    IF earlier > t THEN Err("T") ELSE Ok(t - earlier)

\* Duration::as_secs: whole seconds, the fraction dropped
as_secs(d) == d \div TicksPerSec

\* Mutant: the boundary is exclusive.
Expired_AtLeast(elapsed, interval) == elapsed >= interval

\* expired = elapsed > interval
Expired(elapsed, interval) == elapsed > interval

\* Mutant: a missing refresh interval is read as an interval of zero seconds.
is_cache_timeout_DefaultInterval(c, f, t) ==
    IF IsSome(c.cache_file_path)
      THEN IF Exists(f)
             THEN LET d == duration_since(t, f.mtime)
                      n == IF IsSome(c.update_interval_seconds)
                             THEN Unwrap(c.update_interval_seconds) ELSE 0
                  IN IF ~IsOk(d) THEN d ELSE Ok(Some(Expired(as_secs(d.val), n)))
             ELSE Ok(None)
      ELSE Ok(None)

\* FileCache::is_cache_timeout: Ok(None) absent, Ok(Some(false)) fresh,
\* Ok(Some(true)) stale
is_cache_timeout(c, f, t) ==
    IF IsSome(c.cache_file_path)
      THEN IF Exists(f)
             THEN IF IsSome(c.update_interval_seconds)
                    THEN LET d == duration_since(t, f.mtime)
                         IN IF ~IsOk(d)
                              THEN d
                              ELSE Ok(Some(Expired(as_secs(d.val),
                                           Unwrap(c.update_interval_seconds))))
                    ELSE Ok(Some(FALSE))
             ELSE Ok(None)
      ELSE Ok(None)

\* is_some_and(|timeout| !timeout)
IsFreshDecision(to) == IsSome(to.val) /\ ~Unwrap(to.val)

\* What one fetch_with_cache call did: the freshness decision it took, its
\* result, how often it called the source, read the cache file and wrote it,
\* whether the write succeeded, and what it left on disk.
CallEffect(to, res, srcCalls, reads, writes, wrote, f) ==
    [decision |-> to, res |-> res, srcCalls |-> srcCalls, reads |-> reads,
     writes |-> writes, wrote |-> wrote, file |-> f]

\* Mutant: a failed cache write fails the fetch.
fetch_with_cache_StrictWrite(c, f, t, src, fault, keep) ==
    LET to == is_cache_timeout(c, f, t)
    IN IF ~IsOk(to)
         THEN CallEffect(to, to, 0, 0, 0, FALSE, f)
         ELSE IF IsFreshDecision(to)
           THEN CallEffect(to, read_cache_file(c, f), 0, 1, 0, FALSE, f)
           ELSE IF ~IsOk(src)
             THEN CallEffect(to, src, 1, 0, 0, FALSE, f)
             ELSE IF IsSome(c.cache_file_path)
               THEN LET w == write_cache_file(c, f, src.val, t, fault, keep)
                    IN IF w.panic
                         THEN CallEffect(to, Panic, 1, 0, 0, FALSE, f)
                         ELSE IF w.ok
                           THEN CallEffect(to, Ok(src.val), 1, 0, 1, TRUE, w.file)
                           ELSE CallEffect(to, Err("I"), 1, 0, 1, FALSE, w.file)
               ELSE CallEffect(to, Ok(src.val), 1, 0, 0, FALSE, f)

\* Mutant: the cache file is written whether or not a path is configured.
fetch_with_cache_AlwaysWrite(c, f, t, src, fault, keep) ==
    LET to == is_cache_timeout(c, f, t)
    IN IF ~IsOk(to)
         THEN CallEffect(to, to, 0, 0, 0, FALSE, f)
         ELSE IF IsFreshDecision(to)
           THEN CallEffect(to, read_cache_file(c, f), 0, 1, 0, FALSE, f)
           ELSE IF ~IsOk(src)
             THEN CallEffect(to, src, 1, 0, 0, FALSE, f)
             ELSE LET w == write_cache_file(c, f, src.val, t, fault, keep)
                  IN IF w.panic
                       THEN CallEffect(to, Panic, 1, 0, 0, FALSE, f)
                       ELSE CallEffect(to, Ok(src.val), 1, 0, 1, w.ok, w.file)

\* fetch_with_cache.  src is what s.fetch() returns if it is called.
fetch_with_cache(c, f, t, src, fault, keep) ==
    LET to == is_cache_timeout(c, f, t)
    IN IF ~IsOk(to)
         THEN CallEffect(to, to, 0, 0, 0, FALSE, f)
         ELSE IF IsFreshDecision(to)
           THEN CallEffect(to, read_cache_file(c, f), 0, 1, 0, FALSE, f)
           ELSE IF ~IsOk(src)
             THEN CallEffect(to, src, 1, 0, 0, FALSE, f)
             ELSE IF IsSome(c.cache_file_path)
               THEN LET w == write_cache_file(c, f, src.val, t, fault, keep)
                    IN IF w.panic
                         THEN CallEffect(to, Panic, 1, 0, 0, FALSE, f)
                         ELSE CallEffect(to, Ok(src.val), 1, 0, 1, w.ok, w.file)
               ELSE CallEffect(to, Ok(src.val), 1, 0, 0, FALSE, f)

\* Mutant: a cache file that cannot be read is treated as a cache miss.
fetch_with_cache_async_Fallback(c, f, t, src, fault, keep) ==
    LET to == is_cache_timeout(c, f, t)
        cached == read_cache_file_async(c, f)
    IN IF ~IsOk(to)
         THEN CallEffect(to, to, 0, 0, 0, FALSE, f)
         ELSE IF IsFreshDecision(to) /\ IsOk(cached)
           THEN CallEffect(to, cached, 0, 1, 0, FALSE, f)
           ELSE IF ~IsOk(src)
             THEN CallEffect(to, src, 1, IF IsFreshDecision(to) THEN 1 ELSE 0,
                             0, FALSE, f)
             ELSE IF IsSome(c.cache_file_path)
               THEN LET w == write_cache_file_async(c, f, src.val, t, fault, keep)
                    IN CallEffect(to, Ok(src.val), 1,
                                  IF IsFreshDecision(to) THEN 1 ELSE 0, 1,
                                  w.ok, w.file)
               ELSE CallEffect(to, Ok(src.val), 1, 0, 0, FALSE, f)

\* fetch_with_cache_async
fetch_with_cache_async(c, f, t, src, fault, keep) ==
    LET to == is_cache_timeout(c, f, t)
    IN IF ~IsOk(to)
         THEN CallEffect(to, to, 0, 0, 0, FALSE, f)
         ELSE IF IsFreshDecision(to)
           THEN CallEffect(to, read_cache_file_async(c, f), 0, 1, 0, FALSE, f)
           ELSE IF ~IsOk(src)
             THEN CallEffect(to, src, 1, 0, 0, FALSE, f)
             ELSE IF IsSome(c.cache_file_path)
               THEN LET w == write_cache_file_async(c, f, src.val, t, fault, keep)
                    IN IF w.panic
                         THEN CallEffect(to, Panic, 1, 0, 0, FALSE, f)
                         ELSE CallEffect(to, Ok(src.val), 1, 0, 1, w.ok, w.file)
               ELSE CallEffect(to, Ok(src.val), 1, 0, 0, FALSE, f)

----------------------------------------------------------------------------
(* The cache gate in front of an arbitrary source *)

\* What a source's fetch can return: bytes, NetworkError, SizeLimitExceeded,
\* or an abort.
SourceResults == {Ok(b) : b \in Bodies} \cup {Err("R"), Err("S"), Panic}

\* How the write of the cache file can go: fault and, for a partial write,
\* the number of bytes that reached the disk.
WriteFaults ==
    {[fault |-> "ok", keep |-> 0], [fault |-> "open", keep |-> 0]}
    \cup {[fault |-> "partial", keep |-> k] : k \in 0..(MaxLen - 1)}

Idle == [op |-> "idle"]

\* No concurrent callers
NoCallers == <<>>

Url == "https://www.rust-lang.org"

DefaultHttp ==
    [url |-> Url, proxy |-> None, custom_request_headers |-> None,
     should_use_proxy |-> FALSE, size_limit_bytes |-> None]

NotCalled == [tag |-> "NotCalled"]

\* Record of a finished call: what it did, what the source returned to it (if
\* it was called), and the state the call started from.
CacheObservation(op, r, src) ==
    [op |-> op, decision |-> r.decision, res |-> r.res,
     srcCalls |-> r.srcCalls, reads |-> r.reads, writes |-> r.writes,
     wrote |-> r.wrote, src |-> IF r.srcCalls > 0 THEN src ELSE NotCalled,
     before |-> cacheFile, at |-> now, stored |-> persisted]

Persist(r, bytes) ==
    IF r.wrote THEN Some(bytes)
    ELSE IF r.file # cacheFile THEN None ELSE persisted

FetchWithCacheCall ==
    /\ out = Idle
    /\ \E src \in SourceResults, w \in WriteFaults :
        LET r == fetch_with_cache(fc, cacheFile, now, src, w.fault, w.keep)
        IN /\ cacheFile' = r.file
           /\ persisted' = Persist(r, src.val)
           /\ out' = CacheObservation("fetch_with_cache", r, src)
           /\ UNCHANGED <<now, fc, http, usize_bits, ds, disk, file_name, callers>>

FetchWithCacheAsyncCall ==
    /\ out = Idle
    /\ \E src \in SourceResults, w \in WriteFaults :
        LET r == fetch_with_cache_async(fc, cacheFile, now, src, w.fault, w.keep)
        IN /\ cacheFile' = r.file
           /\ persisted' = Persist(r, src.val)
           /\ out' = CacheObservation("fetch_with_cache_async", r, src)
           /\ UNCHANGED <<now, fc, http, usize_bits, ds, disk, file_name, callers>>

\* Record of a finished direct read or write of the cache file
CacheOpObservation(op, res, ok) ==
    [op |-> op, res |-> res, ok |-> ok, before |-> cacheFile, at |-> now]

\* FileCache::read_cache_file called by the user of the library
ReadCacheFileCall ==
    /\ out = Idle
    /\ out' = CacheOpObservation("read_cache_file",
                                 read_cache_file(fc, cacheFile), TRUE)
    /\ UNCHANGED <<now, cacheFile, fc, persisted, http, usize_bits, ds, disk,
                   file_name, callers>>

ReadCacheFileAsyncCall ==
    /\ out = Idle
    /\ out' = CacheOpObservation("read_cache_file_async",
                                 read_cache_file_async(fc, cacheFile), TRUE)
    /\ UNCHANGED <<now, cacheFile, fc, persisted, http, usize_bits, ds, disk,
                   file_name, callers>>

\* FileCache::write_cache_file called by the user of the library: it returns
\* whether the write succeeded
WriteCacheFileCall ==
    /\ out = Idle
    /\ \E b \in Bodies, w \in WriteFaults :
        LET r == write_cache_file(fc, cacheFile, b, now, w.fault, w.keep)
        IN /\ cacheFile' = r.file
           /\ persisted' = IF r.file # cacheFile THEN None ELSE persisted
           /\ out' = CacheOpObservation("write_cache_file",
                        IF r.panic THEN Panic ELSE Ok(b), r.ok)
    /\ UNCHANGED <<now, fc, http, usize_bits, ds, disk, file_name, callers>>

WriteCacheFileAsyncCall ==
    /\ out = Idle
    /\ \E b \in Bodies, w \in WriteFaults :
        LET r == write_cache_file_async(fc, cacheFile, b, now, w.fault, w.keep)
        IN /\ cacheFile' = r.file
           /\ persisted' = IF r.file # cacheFile THEN None ELSE persisted
           /\ out' = CacheOpObservation("write_cache_file_async",
                        IF r.panic THEN Panic ELSE Ok(b), r.ok)
    /\ UNCHANGED <<now, fc, http, usize_bits, ds, disk, file_name, callers>>

\* The caller takes the result of the finished call.
Returned ==
    /\ out # Idle
    /\ out' = Idle
    /\ UNCHANGED <<now, cacheFile, fc, persisted, http, usize_bits, ds, disk,
                   file_name, callers>>

\* The clock moves on.
Tick ==
    /\ now < MaxTick
    /\ now' = now + 1
    /\ out' = Idle
    /\ UNCHANGED <<cacheFile, fc, persisted, http, usize_bits, ds, disk, file_name,
                   callers>>

\* The system clock is set back.
ClockSetBack ==
    /\ \E t \in 0..(now - 1) : now' = t
    /\ out' = Idle
    /\ UNCHANGED <<cacheFile, fc, persisted, http, usize_bits, ds, disk, file_name,
                   callers>>

\* Something else writes, removes or replaces the cache file.
ExternalWrite ==
    /\ IsSome(fc.cache_file_path)
    /\ cacheFile.kind # "dir"
    /\ \E b \in Bodies : cacheFile' = RegularFile(b, now)
    /\ persisted' = None
    /\ out' = Idle
    /\ UNCHANGED <<now, fc, http, usize_bits, ds, disk, file_name, callers>>

ExternalRemove ==
    /\ IsSome(fc.cache_file_path)
    /\ Exists(cacheFile)
    /\ cacheFile' = Absent
    /\ persisted' = None
    /\ out' = Idle
    /\ UNCHANGED <<now, fc, http, usize_bits, ds, disk, file_name, callers>>

ExternalMkdir ==
    /\ IsSome(fc.cache_file_path)
    /\ ~Exists(cacheFile)
    /\ cacheFile' = Directory(now)
    /\ persisted' = None
    /\ out' = Idle
    /\ UNCHANGED <<now, fc, http, usize_bits, ds, disk, file_name, callers>>

Init ==
    /\ now = 0
    /\ cacheFile = Absent
    /\ fc \in FileCaches
    /\ persisted = None
    /\ http = DefaultHttp
    /\ usize_bits = 0
    /\ ds = [variant |-> "StdReadFile"]
    /\ disk = <<>>
    /\ file_name = ""
    /\ out = Idle
    /\ callers = NoCallers

Next ==
    \/ FetchWithCacheCall
    \/ FetchWithCacheAsyncCall
    \/ ReadCacheFileCall
    \/ ReadCacheFileAsyncCall
    \/ WriteCacheFileCall
    \/ WriteCacheFileAsyncCall
    \/ Returned
    \/ Tick
    \/ ClockSetBack
    \/ ExternalWrite
    \/ ExternalRemove
    \/ ExternalMkdir

Spec == Init /\ [][Next]_vars

----------------------------------------------------------------------------
(* HttpSource *)

RECURSIVE Pow2(_)
Pow2(n) == IF n = 0 THEN 1 ELSE 2 * Pow2(n - 1)

\* `s as usize`: the low bits of a u64 that fit the target's usize
as_usize(s, bits) == s % Pow2(bits)

ProxyAddr == "http://proxy:8080"
BadProxyAddr == "not a url"
Header == <<"k", "v">>

HttpSources ==
    [url : {Url},
     proxy : {None, Some(ProxyAddr), Some(BadProxyAddr)},
     custom_request_headers : {None, Some(<<Header>>)},
     should_use_proxy : BOOLEAN,
     size_limit_bytes : {None} \cup {Some(n) : n \in 0..MaxLimit}]

\* What the network does to one fetch: whether each client build succeeds,
\* whether a direct send and a send through the proxy get a response, the
\* content length the response declares, whether its body can be read, and
\* the body.
Networks ==
    [build1 : BOOLEAN, build2 : BOOLEAN, direct : BOOLEAN, proxied : BOOLEAN,
     declared : {None} \cup {Some(n) : n \in 0..(Pow2(WideBits) - 1)},
     readable : BOOLEAN, body : Bodies]

\* HttpSource::set_proxy: unwrap of the proxy address, then reqwest::Proxy
\* parses it
set_proxy(h) ==
    IF ~IsSome(h.proxy) THEN "panic"
    ELSE IF Unwrap(h.proxy) = BadProxyAddr THEN "err" ELSE "ok"

\* HttpSource::set_proxy_async
set_proxy_async(h) ==
    IF ~IsSome(h.proxy) THEN "panic"
    ELSE IF Unwrap(h.proxy) = BadProxyAddr THEN "err" ELSE "ok"

\* HttpSource::get: one send, with the custom headers, through via
get(h, via) ==
    [via |-> via,
     headers |-> IF IsSome(h.custom_request_headers)
                   THEN Unwrap(h.custom_request_headers) ELSE <<>>]

\* HttpSource::get_async
get_async(h, via) ==
    [via |-> via,
     headers |-> IF IsSome(h.custom_request_headers)
                   THEN Unwrap(h.custom_request_headers) ELSE <<>>]

SendOk(net, via) == IF via = "proxy" THEN net.proxied ELSE net.direct

\* What one HttpSource fetch did: its result, the sends it made in order, and
\* whether it read the response body.
HttpEffect(res, sends, bodyRead) ==
    [res |-> res, sends |-> sends, bodyRead |-> bodyRead]

\* s as usize > sl
OverLimit(s, sl, bits) == as_usize(s, bits) > sl

\* The size check and the body read, once a response has arrived
ReadResponse(h, net, bits, sends) ==
    IF /\ IsSome(h.size_limit_bytes)
       /\ IsSome(net.declared)
       /\ OverLimit(Unwrap(net.declared), Unwrap(h.size_limit_bytes), bits)
      THEN HttpEffect(Err("S"), sends, FALSE)
      ELSE IF net.readable
        THEN HttpEffect(Ok(net.body), sends, TRUE)
        ELSE HttpEffect(Err("R"), sends, TRUE)

\* Mutant: the async form reads the body without the size check.
ReadResponseAsync_NoSizeCheck(h, net, bits, sends) ==
    IF net.readable
      THEN HttpEffect(Ok(net.body), sends, TRUE)
      ELSE HttpEffect(Err("R"), sends, TRUE)

\* The size check and the body read of fetch_async
ReadResponseAsync(h, net, bits, sends) ==
    IF /\ IsSome(h.size_limit_bytes)
       /\ IsSome(net.declared)
       /\ OverLimit(Unwrap(net.declared), Unwrap(h.size_limit_bytes), bits)
      THEN HttpEffect(Err("S"), sends, FALSE)
      ELSE IF net.readable
        THEN HttpEffect(Ok(net.body), sends, TRUE)
        ELSE HttpEffect(Err("R"), sends, TRUE)

\* Mutant: the fallback does not ask whether the proxy was already used.
fetch_RetryAlways(h, net, bits) ==
    LET first == IF h.should_use_proxy THEN set_proxy(h) ELSE "ok"
        via1 == IF h.should_use_proxy THEN "proxy" ELSE "direct"
    IN IF first = "panic" THEN HttpEffect(Panic, <<>>, FALSE)
       ELSE IF first = "err" \/ ~net.build1
         THEN HttpEffect(Err("R"), <<>>, FALSE)
         ELSE IF SendOk(net, via1)
           THEN ReadResponse(h, net, bits, <<get(h, via1)>>)
           ELSE IF IsSome(h.proxy)
             THEN IF set_proxy(h) = "err" \/ ~net.build2
                    THEN HttpEffect(Err("R"), <<get(h, via1)>>, FALSE)
                    ELSE IF SendOk(net, "proxy")
                      THEN ReadResponse(h, net, bits,
                                        <<get(h, via1), get(h, "proxy")>>)
                      ELSE HttpEffect(Err("R"),
                                      <<get(h, via1), get(h, "proxy")>>, FALSE)
             ELSE HttpEffect(Err("R"), <<get(h, via1)>>, FALSE)

\* SyncSource for HttpSource: fetch
fetch(h, net, bits) ==
    LET first == IF h.should_use_proxy THEN set_proxy(h) ELSE "ok"
        via1 == IF h.should_use_proxy THEN "proxy" ELSE "direct"
    IN IF first = "panic" THEN HttpEffect(Panic, <<>>, FALSE)
       ELSE IF first = "err" \/ ~net.build1
         THEN HttpEffect(Err("R"), <<>>, FALSE)
         ELSE IF SendOk(net, via1)
           THEN ReadResponse(h, net, bits, <<get(h, via1)>>)
           ELSE IF ~h.should_use_proxy /\ IsSome(h.proxy)
             THEN IF set_proxy(h) = "err" \/ ~net.build2
                    THEN HttpEffect(Err("R"), <<get(h, via1)>>, FALSE)
                    ELSE IF SendOk(net, "proxy")
                      THEN ReadResponse(h, net, bits,
                                        <<get(h, via1), get(h, "proxy")>>)
                      ELSE HttpEffect(Err("R"),
                                      <<get(h, via1), get(h, "proxy")>>, FALSE)
             ELSE HttpEffect(Err("R"), <<get(h, via1)>>, FALSE)

\* AsyncSource for HttpSource: fetch_async
fetch_async(h, net, bits) ==
    LET first == IF h.should_use_proxy THEN set_proxy_async(h) ELSE "ok"
        via1 == IF h.should_use_proxy THEN "proxy" ELSE "direct"
    IN IF first = "panic" THEN HttpEffect(Panic, <<>>, FALSE)
       ELSE IF first = "err" \/ ~net.build1
         THEN HttpEffect(Err("R"), <<>>, FALSE)
         ELSE IF SendOk(net, via1)
           THEN ReadResponseAsync(h, net, bits, <<get_async(h, via1)>>)
           ELSE IF ~h.should_use_proxy /\ IsSome(h.proxy)
             THEN IF set_proxy_async(h) = "err" \/ ~net.build2
                    THEN HttpEffect(Err("R"), <<get_async(h, via1)>>, FALSE)
                    ELSE IF SendOk(net, "proxy")
                      THEN ReadResponseAsync(h, net, bits,
                               <<get_async(h, via1), get_async(h, "proxy")>>)
                      ELSE HttpEffect(Err("R"),
                               <<get_async(h, via1), get_async(h, "proxy")>>,
                               FALSE)
             ELSE HttpEffect(Err("R"), <<get_async(h, via1)>>, FALSE)

HttpObservation(op, r, net) ==
    [op |-> op, res |-> r.res, sends |-> r.sends, bodyRead |-> r.bodyRead,
     net |-> net]

HttpFetchCall ==
    /\ out = Idle
    /\ \E net \in Networks :
          out' = HttpObservation("fetch", fetch(http, net, usize_bits), net)
    /\ UNCHANGED <<now, cacheFile, fc, persisted, http, usize_bits, ds, disk,
                   file_name, callers>>

HttpFetchAsyncCall ==
    /\ out = Idle
    /\ \E net \in Networks :
          out' = HttpObservation("fetch_async",
                                 fetch_async(http, net, usize_bits), net)
    /\ UNCHANGED <<now, cacheFile, fc, persisted, http, usize_bits, ds, disk,
                   file_name, callers>>

HttpInit ==
    /\ now = 0
    /\ cacheFile = Absent
    /\ fc = [update_interval_seconds |-> None, cache_file_path |-> None]
    /\ persisted = None
    /\ http \in HttpSources
    /\ usize_bits \in {NarrowBits, WideBits}
    /\ ds = [variant |-> "StdReadFile"]
    /\ disk = <<>>
    /\ file_name = ""
    /\ out = Idle
    /\ callers = NoCallers

HttpNext ==
    \/ HttpFetchCall
    \/ HttpFetchAsyncCall
    \/ Returned

HttpSpec == HttpInit /\ [][HttpNext]_vars

----------------------------------------------------------------------------
(* SingleFileSource and DataSource *)

Dirs == {"d1", "d2", "d3"}
Names == {"a.txt", "b.txt"}
FilePathName == "conf/file.bin"

\* Path::new(dir).join(file_name), for a relative file_name
Join(dir, name) == <<dir, name>>

\* A path used as it is given
Plain(p) == <<p>>

\* What is on disk at a path
EntryAt(dk, p) == IF p \in DOMAIN dk THEN dk[p] ELSE Absent

\* Contents of the files the lookups can find
FileContents == {b \in Bodies : Len(b) <= 1}

Entries ==
    {Absent, Directory(0)} \cup {RegularFile(b, 0) : b \in FileContents}

Inline(v) ==
    [kind |-> "Inline", bytes |-> v, path |-> "", http |-> DefaultHttp,
     fc |-> [update_interval_seconds |-> None, cache_file_path |-> None]]
FilePath(q) ==
    [kind |-> "FilePath", bytes |-> <<>>, path |-> q, http |-> DefaultHttp,
     fc |-> [update_interval_seconds |-> None, cache_file_path |-> None]]
Http(h, c) ==
    [kind |-> "Http", bytes |-> <<>>, path |-> "", http |-> h, fc |-> c]

SingleFileSources ==
    {Inline(v) : v \in FileContents \ {<<>>}}
    \cup {FilePath(FilePathName)}
    \cup {Http(DefaultHttp, c) :
            c \in {k \in FileCaches :
                     k.update_interval_seconds \in {None, Some(0)}}}

\* Mutant: only a remote entry has a path.
get_path_HttpOnly(sf) ==
    IF sf.kind = "Http" THEN Some(sf.http.url) ELSE None

\* GetPath for SingleFileSource
get_path(sf) ==
    IF sf.kind = "Http" THEN Some(sf.http.url)
    ELSE IF sf.kind = "FilePath" THEN Some(sf.path)
    ELSE None

NoCacheUse(f) == CallEffect(Ok(None), Ok(None), 0, 0, 0, FALSE, f)

\* What one lookup did: its result, the paths it tested for existence and
\* the paths it read, in order, the sends it made, and what it did to the
\* cache file.
LookupEffect(res, probes, reads, sends, cache) ==
    [res |-> res, probes |-> probes, reads |-> reads, sends |-> sends,
     cache |-> cache]

\* SyncSource for SingleFileSource: fetch
sf_fetch(sf, env) ==
    IF sf.kind = "Http"
      THEN LET h == fetch(sf.http, env.net, env.bits)
               e == fetch_with_cache(sf.fc, env.cacheFile, env.now, h.res,
                                     env.write.fault, env.write.keep)
           IN LookupEffect(e.res, <<>>, <<>>,
                           IF e.srcCalls > 0 THEN h.sends ELSE <<>>, e)
      ELSE IF sf.kind = "FilePath"
        THEN LookupEffect(FsRead(EntryAt(env.disk, Plain(sf.path))), <<>>,
                          <<Plain(sf.path)>>, <<>>, NoCacheUse(env.cacheFile))
        ELSE LookupEffect(Ok(sf.bytes), <<>>, <<>>, <<>>,
                          NoCacheUse(env.cacheFile))

\* AsyncSource for SingleFileSource: fetch_async
sf_fetch_async(sf, env) ==
    IF sf.kind = "Http"
      THEN LET h == fetch_async(sf.http, env.net, env.bits)
               e == fetch_with_cache_async(sf.fc, env.cacheFile, env.now,
                                           h.res, env.write.fault,
                                           env.write.keep)
           IN LookupEffect(e.res, <<>>, <<>>,
                           IF e.srcCalls > 0 THEN h.sends ELSE <<>>, e)
      ELSE IF sf.kind = "FilePath"
        THEN LookupEffect(FsRead(EntryAt(env.disk, Plain(sf.path))), <<>>,
                          <<Plain(sf.path)>>, <<>>, NoCacheUse(env.cacheFile))
        ELSE LookupEffect(Ok(sf.bytes), <<>>, <<>>, <<>>,
                          NoCacheUse(env.cacheFile))

\* .map(|d| (d, sf.get_path()))
WithPath(e, sf) ==
    IF IsOk(e.res)
      THEN LookupEffect(OkFrom(e.res.val, get_path(sf)), e.probes, e.reads,
                        e.sends, e.cache)
      ELSE e

\* The read of a path found to exist; env.gone says the entry was removed
\* after the existence test.
ReadFound(env, p) ==
    IF env.gone THEN Err("I") ELSE FsRead(EntryAt(env.disk, p))

\* Mutant: only the first directory of the list is tried.
folders_lookup_FirstOnly(dirs, i, name, env, probes) ==
    IF i > Len(dirs) \/ i > 1
      THEN LookupEffect(ErrNFD(dirs), probes, <<>>, <<>>,
                        NoCacheUse(env.cacheFile))
      ELSE LET real_file_name == Join(dirs[i], name)
               r == ReadFound(env, real_file_name)
           IN IF Exists(EntryAt(env.disk, real_file_name))
                THEN LookupEffect(
                       IF IsOk(r) THEN OkFrom(r.val, Some(dirs[i])) ELSE r,
                       Append(probes, real_file_name), <<real_file_name>>,
                       <<>>, NoCacheUse(env.cacheFile))
                ELSE LookupEffect(ErrNFD(dirs), Append(probes, real_file_name),
                                  <<>>, <<>>, NoCacheUse(env.cacheFile))

\* DataSource::Folders in get_file_content: the loop over possible_addrs,
\* from its i-th directory on
RECURSIVE folders_lookup(_, _, _, _, _)
folders_lookup(dirs, i, name, env, probes) ==
    IF i > Len(dirs)
      THEN LookupEffect(ErrNFD(dirs), probes, <<>>, <<>>,
                        NoCacheUse(env.cacheFile))
      ELSE LET real_file_name == Join(dirs[i], name)
               r == ReadFound(env, real_file_name)
           IN IF Exists(EntryAt(env.disk, real_file_name))
                THEN LookupEffect(
                       IF IsOk(r) THEN OkFrom(r.val, Some(dirs[i])) ELSE r,
                       Append(probes, real_file_name), <<real_file_name>>,
                       <<>>, NoCacheUse(env.cacheFile))
                ELSE folders_lookup(dirs, i + 1, name, env,
                                    Append(probes, real_file_name))

\* Mutant: a candidate that exists but cannot be read is passed over.
RECURSIVE folders_lookup_async_SkipUnreadable(_, _, _, _, _)
folders_lookup_async_SkipUnreadable(dirs, i, name, env, probes) ==
    IF i > Len(dirs)
      THEN LookupEffect(ErrNFD(dirs), probes, <<>>, <<>>,
                        NoCacheUse(env.cacheFile))
      ELSE LET real_file_name == Join(dirs[i], name)
               r == ReadFound(env, real_file_name)
           IN IF Exists(EntryAt(env.disk, real_file_name)) /\ IsOk(r)
                THEN LookupEffect(
                       OkFrom(r.val, Some(dirs[i])),
                       Append(probes, real_file_name), <<real_file_name>>,
                       <<>>, NoCacheUse(env.cacheFile))
                ELSE folders_lookup_async_SkipUnreadable(
                       dirs, i + 1, name, env, Append(probes, real_file_name))

\* DataSource::Folders in get_file_content_async
RECURSIVE folders_lookup_async(_, _, _, _, _)
folders_lookup_async(dirs, i, name, env, probes) ==
    IF i > Len(dirs)
      THEN LookupEffect(ErrNFD(dirs), probes, <<>>, <<>>,
                        NoCacheUse(env.cacheFile))
      ELSE LET real_file_name == Join(dirs[i], name)
               r == ReadFound(env, real_file_name)
           IN IF Exists(EntryAt(env.disk, real_file_name))
                THEN LookupEffect(
                       IF IsOk(r) THEN OkFrom(r.val, Some(dirs[i])) ELSE r,
                       Append(probes, real_file_name), <<real_file_name>>,
                       <<>>, NoCacheUse(env.cacheFile))
                ELSE folders_lookup_async(dirs, i + 1, name, env,
                                          Append(probes, real_file_name))

\* DataSource::StdReadFile
std_read_file(name, env) ==
    LookupEffect(FsRead(EntryAt(env.disk, Plain(name))), <<>>, <<Plain(name)>>,
                 <<>>, NoCacheUse(env.cacheFile))

\* Paths of the entries of an archive, as their headers spell them
TarPaths == {"a.txt", "a.txt/", "b.txt"}

\* Path::components of the paths of the model: a trailing separator adds no
\* component
Components(p) == IF p = "a.txt/" THEN <<"a.txt">> ELSE <<p>>

\* PartialEq for Path: two paths are equal when their components are
PathEq(p, q) == Components(p) = Components(q)

TarEntry(p, b) == [path |-> p, content |-> b]
TarEntries == {TarEntry(p, b) : p \in TarPaths, b \in FileContents}
Archives == UNION {[1..n -> TarEntries] : n \in 0..MaxEntries}

\* a.entries().unwrap().find(..): the index of the first entry, from the
\* i-th on, whose path equals the name; 0 when there is none
RECURSIVE tar_find(_, _, _)
tar_find(entries, i, name) ==
    IF i > Len(entries) THEN 0
    ELSE IF PathEq(entries[i].path, name) THEN i
    ELSE tar_find(entries, i + 1, name)

\* Mutant: the last entry of that path is the one taken.
get_file_from_tar_LastMatch(name, entries, env) ==
    LET hits == {i \in 1..Len(entries) : PathEq(entries[i].path, name)}
        k == CHOOSE i \in hits : \A j \in hits : j <= i
    IN IF hits = {}
         THEN LookupEffect(Err("I"), <<>>, <<>>, <<>>,
                           NoCacheUse(env.cacheFile))
         ELSE LookupEffect(OkFrom(entries[k].content, Some(entries[k].path)),
                           <<>>, <<>>, <<>>, NoCacheUse(env.cacheFile))

\* get_file_from_tar: a miss is an io::Error of kind NotFound, which the ?
\* operator turns into FetchError::I
get_file_from_tar(name, entries, env) ==
    LET k == tar_find(entries, 1, name)
    IN IF k = 0
         THEN LookupEffect(Err("I"), <<>>, <<>>, <<>>,
                           NoCacheUse(env.cacheFile))
         ELSE LookupEffect(OkFrom(entries[k].content, Some(entries[k].path)),
                           <<>>, <<>>, <<>>, NoCacheUse(env.cacheFile))

\* DataSource::Sync and DataSource::Async hand the lookup to the boxed
\* source; env.plug is what that source returns.
pluggable(env) ==
    LookupEffect(env.plug, <<>>, <<>>, <<>>, NoCacheUse(env.cacheFile))

\* tokio::runtime::Handle::current().block_on(..): Handle::current panics
\* outside a runtime
block_on(env) ==
    IF env.runtime THEN pluggable(env)
    ELSE LookupEffect(Panic, <<>>, <<>>, <<>>, NoCacheUse(env.cacheFile))

\* SyncFolderSource for DataSource: get_file_content
get_file_content(d, name, env) ==
    IF d.variant = "Sync" THEN pluggable(env)
    ELSE IF d.variant = "Async" THEN block_on(env)
    ELSE IF d.variant = "Tar" THEN get_file_from_tar(name, d.tar, env)
    ELSE IF d.variant = "Folders"
      THEN folders_lookup(d.dirs, 1, name, env, <<>>)
      ELSE IF d.variant = "StdReadFile"
        THEN std_read_file(name, env)
        ELSE IF name \in DOMAIN d.map
          THEN WithPath(sf_fetch(d.map[name], env), d.map[name])
          ELSE LookupEffect(Err("NF"), <<>>, <<>>, <<>>,
                            NoCacheUse(env.cacheFile))

\* Mutant: a key missing from the map is looked up on disk.
get_file_content_async_MissReadsDisk(d, name, env) ==
    IF d.variant \in {"Sync", "Async"} THEN pluggable(env)
    ELSE IF d.variant = "Tar" THEN get_file_from_tar(name, d.tar, env)
    ELSE IF d.variant = "Folders"
      THEN folders_lookup_async(d.dirs, 1, name, env, <<>>)
      ELSE IF d.variant = "StdReadFile"
        THEN std_read_file(name, env)
        ELSE IF name \in DOMAIN d.map
          THEN WithPath(sf_fetch_async(d.map[name], env), d.map[name])
          ELSE std_read_file(name, env)

\* AsyncFolderSource for DataSource: get_file_content_async
get_file_content_async(d, name, env) ==
    IF d.variant \in {"Sync", "Async"} THEN pluggable(env)
    ELSE IF d.variant = "Tar" THEN get_file_from_tar(name, d.tar, env)
    ELSE IF d.variant = "Folders"
      THEN folders_lookup_async(d.dirs, 1, name, env, <<>>)
      ELSE IF d.variant = "StdReadFile"
        THEN std_read_file(name, env)
        ELSE IF name \in DOMAIN d.map
          THEN WithPath(sf_fetch_async(d.map[name], env), d.map[name])
          ELSE LookupEffect(Err("NF"), <<>>, <<>>, <<>>,
                            NoCacheUse(env.cacheFile))

StdReadFile ==
    [variant |-> "StdReadFile", dirs |-> <<>>, map |-> <<>>, tar |-> <<>>]
Folders(v) ==
    [variant |-> "Folders", dirs |-> v, map |-> <<>>, tar |-> <<>>]
FileMap(m) ==
    [variant |-> "FileMap", dirs |-> <<>>, map |-> m, tar |-> <<>>]
Tar(a) == [variant |-> "Tar", dirs |-> <<>>, map |-> <<>>, tar |-> a]
SyncSource == [variant |-> "Sync", dirs |-> <<>>, map |-> <<>>, tar |-> <<>>]
AsyncSource == [variant |-> "Async", dirs |-> <<>>, map |-> <<>>, tar |-> <<>>]

FolderLists == UNION {[1..n -> Dirs] : n \in 0..MaxDirs}
FileMaps == UNION {[K -> SingleFileSources] : K \in SUBSET Names}

DataSources ==
    {StdReadFile} \cup {Folders(v) : v \in FolderLists}
    \cup {FileMap(m) : m \in FileMaps}
    \cup {Tar(a) : a \in Archives}
    \cup {SyncSource, AsyncSource}

\* The paths a lookup of name in d can touch
PathsOf(d, name) ==
    IF d.variant = "Folders" THEN {Join(dir, name) : dir \in Dirs}
    ELSE IF d.variant = "StdReadFile" THEN {Plain(name)}
    ELSE IF d.variant = "FileMap" THEN {Plain(FilePathName)}
    ELSE {}

\* The lookup reaches a remote entry
ReachesHttp(d, name) ==
    /\ d.variant = "FileMap"
    /\ name \in DOMAIN d.map
    /\ d.map[name].kind = "Http"

\* Every kind of FetchError
ErrorKinds == {"R", "I", "T", "S", "NC", "NF"}

\* What a boxed SyncFolderSource or AsyncFolderSource can return
PluggableResults ==
    {OkFrom(b, p) : b \in FileContents, p \in {None, Some("boxed")}}
    \cup {Err(k) : k \in ErrorKinds} \cup {ErrNFD(<<"d1">>)}

QuietNetwork ==
    [build1 |-> TRUE, build2 |-> TRUE, direct |-> TRUE, proxied |-> TRUE,
     declared |-> None, readable |-> TRUE, body |-> <<>>]

\* What the environment does to one lookup: the network and the cache write
\* matter to a remote entry, a removal after the existence test to a Folders
\* lookup.
LookupInputs(d, name) ==
    [net : IF ReachesHttp(d, name)
             THEN {n \in Networks :
                     /\ n.build1 /\ n.build2 /\ n.proxied /\ n.readable
                     /\ n.declared = None}
             ELSE {QuietNetwork},
     write : IF ReachesHttp(d, name) THEN WriteFaults
             ELSE {[fault |-> "ok", keep |-> 0]},
     gone : IF d.variant = "Folders" THEN BOOLEAN ELSE {FALSE},
     plug : IF d.variant \in {"Sync", "Async"} THEN PluggableResults
            ELSE {Ok(<<>>)},
     runtime : IF d.variant = "Async" THEN BOOLEAN ELSE {TRUE}]

Env(inp) ==
    [disk |-> disk, cacheFile |-> cacheFile, now |-> now, bits |-> usize_bits,
     net |-> inp.net, write |-> inp.write, gone |-> inp.gone,
     plug |-> inp.plug, runtime |-> inp.runtime]

LookupObservation(op, e, inp) ==
    [op |-> op, res |-> e.res, probes |-> e.probes, reads |-> e.reads,
     sends |-> e.sends, cache |-> e.cache, gone |-> inp.gone]

GetFileContentCall ==
    /\ out = Idle
    /\ \E inp \in LookupInputs(ds, file_name) :
          LET e == get_file_content(ds, file_name, Env(inp))
          IN /\ cacheFile' = e.cache.file
             /\ out' = LookupObservation("get_file_content", e, inp)
    /\ UNCHANGED <<now, fc, persisted, http, usize_bits, ds, disk, file_name,
                   callers>>

GetFileContentAsyncCall ==
    /\ out = Idle
    /\ \E inp \in LookupInputs(ds, file_name) :
          LET e == get_file_content_async(ds, file_name, Env(inp))
          IN /\ cacheFile' = e.cache.file
             /\ out' = LookupObservation("get_file_content_async", e, inp)
    /\ UNCHANGED <<now, fc, persisted, http, usize_bits, ds, disk, file_name,
                   callers>>

\* StatusCode values of the file server
OK == 200
METHOD_NOT_ALLOWED == 405
NOT_FOUND == 404
PAYLOAD_TOO_LARGE == 413
INTERNAL_SERVER_ERROR == 500

Methods == {"GET", "HEAD", "POST"}

\* The request paths that name a file of the server: the name after one or
\* more "/files/" prefixes
RequestPaths(name) == {<<"/files/", name>>, <<"/files/", "/files/", name>>}

\* str::trim_start_matches("/files/"): every leading repetition of the
\* prefix is removed
RECURSIVE trim_start_matches(_)
trim_start_matches(p) ==
    IF Len(p) > 1 /\ p[1] = "/files/" THEN trim_start_matches(Tail(p))
    ELSE p[1]

\* mime_guess::from_path(path).first_or_octet_stream()
first_or_octet_stream(name) ==
    IF name \in {"a.txt", "b.txt"} THEN "text/plain"
    ELSE "application/octet-stream"

\* Mutant: an I/O failure is answered as a missing file.
status_of_IoNotFound(e) ==
    IF e.err \in {"NF", "NFD", "I"} THEN NOT_FOUND
    ELSE IF e.err = "S" THEN PAYLOAD_TOO_LARGE
    ELSE INTERNAL_SERVER_ERROR

\* The match on the FetchError in DataSourceService::call
status_of(e) ==
    IF e.err \in {"NF", "NFD"} THEN NOT_FOUND
    ELSE IF e.err = "S" THEN PAYLOAD_TOO_LARGE
    ELSE INTERNAL_SERVER_ERROR

Response(status, content_type, body) ==
    [status |-> status, content_type |-> content_type, body |-> body]

\* Service::call of DataSourceService, for a request that is not refused:
\* the response built from the result of the lookup.  A panic of the lookup
\* aborts the task and leaves no response.
call(name, res) ==
    IF res.tag = "Panic" THEN Response(0, "", <<>>)
    ELSE IF IsOk(res)
      THEN Response(OK, first_or_octet_stream(name), res.val)
      ELSE Response(status_of(res), "", <<status_of(res), name, res.err>>)

ServiceObservation(method, e, rsp) ==
    [op |-> "call", method |-> method, res |-> e.res, probes |-> e.probes,
     reads |-> e.reads, sends |-> e.sends, cache |-> e.cache,
     status |-> rsp.status, content_type |-> rsp.content_type,
     body |-> rsp.body]

\* Service::call of DataSourceService: a request other than GET or HEAD is
\* refused before any lookup; otherwise the name is looked up and answered.
ServiceCall ==
    /\ out = Idle
    /\ \E method \in Methods, p \in RequestPaths(file_name),
          inp \in LookupInputs(ds, file_name) :
          IF method \notin {"GET", "HEAD"}
            THEN /\ out' = [op |-> "refused", method |-> method,
                            status |-> METHOD_NOT_ALLOWED,
                            body |-> "Method not allowed"]
                 /\ UNCHANGED cacheFile
            ELSE LET path == trim_start_matches(p)
                     e == get_file_content_async(ds, path, Env(inp))
                 IN /\ cacheFile' = e.cache.file
                    /\ out' = ServiceObservation(method, e, call(path, e.res))
    /\ UNCHANGED <<now, fc, persisted, http, usize_bits, ds, disk, file_name,
                   callers>>

\* What std::env::current_dir() can return: the working directory (one the
\* lookups know, or one whose name is not valid UTF-8), or an io::Error
\* (the directory was removed, or may not be read)
NonUtf8Dir == "work<FF>"
CurrentDirs ==
    {[ok |-> TRUE, path |-> "d3"], [ok |-> TRUE, path |-> NonUtf8Dir],
     [ok |-> FALSE, path |-> ""]}

\* Path::to_string_lossy: a byte that is not UTF-8 becomes U+FFFD
to_string_lossy(p) == IF p = NonUtf8Dir THEN "work<U+FFFD>" ELSE p

\* Mutant: the working directory is put in front of the list.
insert_current_working_dir_Front(d, cwd) ==
    IF d.variant = "Folders"
      THEN IF cwd.ok
             THEN [ds |-> Folders(<<to_string_lossy(cwd.path)>> \o d.dirs),
                   res |-> Ok(<<>>)]
             ELSE [ds |-> d, res |-> Err("io")]
      ELSE [ds |-> d, res |-> Ok(<<>>)]

\* DataSource::insert_current_working_dir: the new DataSource and the
\* io::Result returned
insert_current_working_dir(d, cwd) ==
    IF d.variant = "Folders"
      THEN IF cwd.ok
             THEN [ds |-> Folders(Append(d.dirs, to_string_lossy(cwd.path))),
                   res |-> Ok(<<>>)]
             ELSE [ds |-> d, res |-> Err("io")]
      ELSE [ds |-> d, res |-> Ok(<<>>)]

\* A call of insert_current_working_dir; the list is let grow to MaxDirs
\* entries.
InsertCurrentWorkingDirCall ==
    /\ out = Idle
    /\ Len(ds.dirs) < MaxDirs
    /\ \E cwd \in CurrentDirs :
          LET r == insert_current_working_dir(ds, cwd)
          IN /\ ds' = r.ds
             /\ out' = [op |-> "insert_current_working_dir", res |-> r.res,
                        before |-> ds, cwd |-> cwd]
    /\ UNCHANGED <<now, cacheFile, fc, persisted, http, usize_bits, disk,
                   file_name, callers>>

ResolveInit ==
    /\ now = 0
    /\ cacheFile = Absent
    /\ fc = [update_interval_seconds |-> None, cache_file_path |-> None]
    /\ persisted = None
    /\ http = DefaultHttp
    /\ usize_bits = WideBits
    /\ ds \in DataSources
    /\ file_name \in Names
    /\ disk \in [PathsOf(ds, file_name) -> Entries]
    /\ out = Idle
    /\ callers = NoCallers

ResolveNext ==
    \/ GetFileContentCall
    \/ GetFileContentAsyncCall
    \/ ServiceCall
    \/ InsertCurrentWorkingDirCall
    \/ Returned

ResolveSpec == ResolveInit /\ [][ResolveNext]_vars

----------------------------------------------------------------------------
(* Concurrent callers of one cached remote entry *)

\* The requests in flight, each served by its own task on a clone of the
\* service
Callers == {"c1", "c2"}

\* The complete responses of the remote endpoint
RemoteBodies == {b \in Bodies : Len(b) = MaxLen}

\* A caller between two calls; d is the fetched body, ret the result of the
\* call once it has ended.
AtStart == [pc |-> "exists", d |-> <<>>, ret |-> NotCalled]

At(c, pc) == callers[c].pc = pc
Goto(c, pc) == callers' = [callers EXCEPT ![c].pc = pc]
Finish(c, r) == callers' = [callers EXCEPT ![c].pc = "done", ![c].ret = r]

\* write_all at the start of the opened file: bytes go over what is there
WriteAll(f, bytes, t) ==
    RegularFile(bytes \o SubSeq(f.content, Len(bytes) + 1, Len(f.content)), t)

\* is_cache_timeout, std::fs::exists(cf): a missing file is Absent; a file
\* with no interval set is Fresh without a look at its time
StdFsExists ==
    \E c \in Callers :
        /\ At(c, "exists")
        /\ IF ~Exists(cacheFile) THEN Goto(c, "fetch")
           ELSE IF IsSome(fc.update_interval_seconds) THEN Goto(c, "metadata")
           ELSE Goto(c, "read")
        /\ UNCHANGED <<now, cacheFile, fc, persisted, http, usize_bits, ds,
                       disk, file_name, out>>

\* is_cache_timeout, std::fs::metadata(cf) and the comparison with the
\* interval
StdFsMetadata ==
    \E c \in Callers :
        /\ At(c, "metadata")
        /\ LET el == duration_since(now, cacheFile.mtime)
           IN IF ~Exists(cacheFile) THEN Finish(c, Err("I"))
              ELSE IF ~IsOk(el) THEN Finish(c, el)
              ELSE IF Expired(as_secs(el.val),
                              Unwrap(fc.update_interval_seconds))
                THEN Goto(c, "fetch")
                ELSE Goto(c, "read")
        /\ UNCHANGED <<now, cacheFile, fc, persisted, http, usize_bits, ds,
                       disk, file_name, out>>

\* fc.read_cache_file_async().await
ReadCacheFileAsyncStep ==
    \E c \in Callers :
        /\ At(c, "read")
        /\ Finish(c, read_cache_file_async(fc, cacheFile))
        /\ UNCHANGED <<now, cacheFile, fc, persisted, http, usize_bits, ds,
                       disk, file_name, out>>

\* s.fetch_async().await?
FetchAsyncStep ==
    \E c \in Callers :
        /\ At(c, "fetch")
        /\ \/ \E b \in RemoteBodies :
                callers' = [callers EXCEPT ![c].pc = "open", ![c].d = b]
           \/ Finish(c, Err("R"))
        /\ UNCHANGED <<now, cacheFile, fc, persisted, http, usize_bits, ds,
                       disk, file_name, out>>

\* write_cache_file_async, first half of tokio::fs::write: the file is
\* created or emptied
WriteOpenTruncate ==
    \E c \in Callers :
        /\ At(c, "open")
        /\ cacheFile' = RegularFile(<<>>, now)
        /\ Goto(c, "write_all")
        /\ UNCHANGED <<now, fc, persisted, http, usize_bits, ds, disk,
                       file_name, out>>

\* write_cache_file_async, second half of tokio::fs::write: the bytes are
\* written; then Ok(d)
WriteFill ==
    \E c \in Callers :
        /\ At(c, "write_all")
        /\ cacheFile' = WriteAll(cacheFile, callers[c].d, now)
        /\ Finish(c, Ok(callers[c].d))
        /\ UNCHANGED <<now, fc, persisted, http, usize_bits, ds, disk,
                       file_name, out>>

\* The response is sent; the next request of this caller starts a new call.
CallerReturned ==
    \E c \in Callers :
        /\ At(c, "done")
        /\ callers' = [callers EXCEPT ![c] = AtStart]
        /\ UNCHANGED <<now, cacheFile, fc, persisted, http, usize_bits, ds,
                       disk, file_name, out>>

ConcInit ==
    /\ now = 0
    /\ cacheFile \in {Absent} \cup {RegularFile(b, 0) : b \in RemoteBodies}
    /\ fc \in {c \in FileCaches : IsSome(c.cache_file_path)}
    /\ persisted = None
    /\ http = DefaultHttp
    /\ usize_bits = WideBits
    /\ ds = FileMap([n \in Names |-> Http(DefaultHttp, fc)])
    /\ disk = <<>>
    /\ file_name \in Names
    /\ out = Idle
    /\ callers = [c \in Callers |-> AtStart]

ConcNext ==
    \/ StdFsExists
    \/ StdFsMetadata
    \/ ReadCacheFileAsyncStep
    \/ FetchAsyncStep
    \/ WriteOpenTruncate
    \/ WriteFill
    \/ CallerReturned
    \/ Tick

ConcSpec == ConcInit /\ [][ConcNext]_vars

----------------------------------------------------------------------------
(* The three layers side by side: each run exercises one of them *)

\* Which layer a run exercises shows in what it was set up with.
CacheLayer == usize_bits = 0
HttpLayer == usize_bits # 0 /\ file_name = ""
LookupLayer == file_name # "" /\ callers = NoCallers

LayersInit == Init \/ HttpInit \/ ResolveInit

LayersNext ==
    \/ CacheLayer /\ FetchWithCacheCall
    \/ CacheLayer /\ FetchWithCacheAsyncCall
    \/ CacheLayer /\ ReadCacheFileCall
    \/ CacheLayer /\ ReadCacheFileAsyncCall
    \/ CacheLayer /\ WriteCacheFileCall
    \/ CacheLayer /\ WriteCacheFileAsyncCall
    \/ CacheLayer /\ Tick
    \/ CacheLayer /\ ClockSetBack
    \/ CacheLayer /\ ExternalWrite
    \/ CacheLayer /\ ExternalRemove
    \/ CacheLayer /\ ExternalMkdir
    \/ HttpLayer /\ HttpFetchCall
    \/ HttpLayer /\ HttpFetchAsyncCall
    \/ LookupLayer /\ GetFileContentCall
    \/ LookupLayer /\ GetFileContentAsyncCall
    \/ LookupLayer /\ ServiceCall
    \/ LookupLayer /\ InsertCurrentWorkingDirCall
    \/ Returned

LayersSpec == LayersInit /\ [][LayersNext]_vars

----------------------------------------------------------------------------
(* Claims about the cache gate, checked under Spec *)

IsCacheCall == out.op \in {"fetch_with_cache", "fetch_with_cache_async"}

Fresh == Ok(Some(FALSE))
Stale == Ok(Some(TRUE))
AbsentDecision == Ok(None)

HasInterval == IsSome(fc.update_interval_seconds)
Interval == Unwrap(fc.update_interval_seconds)

\* The age of the cache file the call started from, in ticks (when the
\* modification time is not later than the clock).
AgeTicks == out.at - out.before.mtime

\* The age is defined and at most the refresh interval.
AgeWithinInterval ==
    /\ out.before.mtime <= out.at
    /\ AgeTicks <= Interval * TicksPerSec

\* C1: after a successful remote fetch of bytes B whose cache write succeeds,
\* the cache file holds exactly B; and a later call made while that file's age
\* is within the refresh interval returns exactly B without calling the
\* source.
C1_RoundTrip ==
    IsCacheCall =>
        /\ (out.srcCalls = 1 /\ IsOk(out.src) /\ out.wrote)
              => /\ cacheFile = RegularFile(out.src.val, out.at)
                 /\ out.res = Ok(out.src.val)
        /\ (IsSome(out.stored) /\ HasInterval /\ AgeWithinInterval)
              => /\ out.res = Ok(Unwrap(out.stored))
                 /\ out.srcCalls = 0

\* C1 witness: a call made some time after a successful write, within the
\* interval, that returned the stored bytes from the cache.
C1_Witness ==
    /\ IsCacheCall
    /\ IsSome(out.stored) /\ HasInterval /\ AgeWithinInterval
    /\ AgeTicks > 0
    /\ Len(Unwrap(out.stored)) > 0
    /\ out.res = Ok(Unwrap(out.stored))
    /\ out.srcCalls = 0

\* C2 as stated: with the file present and an interval of N seconds, the
\* decision is Fresh iff the elapsed time is at most N seconds, Stale
\* otherwise.
C2_FreshIffElapsedAtMostN ==
    (IsCacheCall /\ IsSome(fc.cache_file_path) /\ Exists(out.before)
       /\ HasInterval /\ out.before.mtime <= out.at)
    => out.decision = IF AgeTicks <= Interval * TicksPerSec THEN Fresh ELSE Stale

\* C2 amended: the decision is Fresh iff the elapsed time is less than N + 1
\* seconds (its whole seconds are at most N), Stale otherwise; so an age of
\* exactly N is Fresh and an age of N + 1 is Stale.
C2_FreshIffWholeSecondsAtMostN ==
    (IsCacheCall /\ IsSome(fc.cache_file_path) /\ Exists(out.before)
       /\ HasInterval /\ out.before.mtime <= out.at)
    => /\ out.decision =
            IF AgeTicks < (Interval + 1) * TicksPerSec THEN Fresh ELSE Stale
       /\ AgeTicks = Interval * TicksPerSec => out.decision = Fresh
       /\ AgeTicks = (Interval + 1) * TicksPerSec => out.decision = Stale

\* C2 witness: a file exactly N >= 1 seconds old was found Fresh.
C2_Witness ==
    /\ IsCacheCall /\ IsSome(fc.cache_file_path) /\ Exists(out.before)
    /\ HasInterval /\ Interval >= 1
    /\ out.before.mtime <= out.at
    /\ AgeTicks = Interval * TicksPerSec
    /\ out.decision = Fresh

\* C5: with caching enabled, a call whose remote fetch succeeds attempts at
\* most one cache write and returns Ok with the fetched bytes even when that
\* write fails.
C5_BestEffortWrite ==
    (IsCacheCall /\ IsSome(fc.cache_file_path)
       /\ out.srcCalls > 0 /\ IsOk(out.src))
    => /\ out.writes <= 1
       /\ out.res = Ok(out.src.val)

\* C5 witness: the write failed and the call returned the fetched bytes.
C5_Witness ==
    /\ IsCacheCall /\ IsSome(fc.cache_file_path)
    /\ out.srcCalls = 1 /\ IsOk(out.src)
    /\ out.writes = 1 /\ ~out.wrote
    /\ Len(out.src.val) > 0
    /\ out.res = Ok(out.src.val)

\* C6: on Fresh the call returns what reading the cache file gives, its bytes
\* or the IoError, and in both cases neither calls the source nor writes the
\* cache.
C6_FreshReadsCache ==
    (IsCacheCall /\ out.decision = Fresh)
    => /\ out.res = (IF out.before.kind = "file"
                       THEN Ok(out.before.content) ELSE Err("I"))
       /\ out.reads = 1
       /\ out.srcCalls = 0
       /\ out.writes = 0
       /\ cacheFile = out.before

\* C6 witness: the cache file was Fresh but unreadable, and the call returned
\* the IoError.
C6_Witness ==
    /\ IsCacheCall /\ out.decision = Fresh
    /\ out.before.kind = "dir"
    /\ out.res = Err("I")
    /\ out.srcCalls = 0

\* C7: with a cache path, an existing file and no refresh interval, the
\* decision is Fresh whatever the modification time, the source is not
\* called, and the bytes of the file are returned.
C7_CacheForever ==
    (IsCacheCall /\ IsSome(fc.cache_file_path) /\ Exists(out.before)
       /\ ~HasInterval)
    => /\ out.decision = Fresh
       /\ out.srcCalls = 0
       /\ out.before.kind = "file" => out.res = Ok(out.before.content)

\* C7 witness: a file at least two seconds old was served from the cache with
\* no interval set.
C7_Witness ==
    /\ IsCacheCall /\ IsSome(fc.cache_file_path) /\ ~HasInterval
    /\ out.before.kind = "file"
    /\ Len(out.before.content) > 0
    /\ AgeTicks >= 2 * TicksPerSec
    /\ out.res = Ok(out.before.content)
    /\ out.srcCalls = 0

\* C8: without a cache path the decision is Absent whatever the interval, the
\* call calls the source exactly once and returns what it returned, and the
\* cache is neither read nor written.
C8_NoPathNoCache ==
    (IsCacheCall /\ ~IsSome(fc.cache_file_path))
    => /\ out.decision = AbsentDecision
       /\ out.srcCalls = 1
       /\ out.res = out.src
       /\ out.reads = 0
       /\ out.writes = 0
       /\ cacheFile = out.before

\* C8 witness: a live fetch with an interval set and no cache path.
C8_Witness ==
    /\ IsCacheCall /\ ~IsSome(fc.cache_file_path) /\ HasInterval
    /\ out.srcCalls = 1
    /\ IsOk(out.res) /\ Len(out.res.val) > 0
    /\ out.reads = 0 /\ out.writes = 0

----------------------------------------------------------------------------
(* Claims about HttpSource, checked under HttpSpec *)

IsHttpCall == out.op \in {"fetch", "fetch_async"}

GotResponse ==
    /\ Len(out.sends) > 0
    /\ SendOk(out.net, out.sends[Len(out.sends)].via)

\* C3: a fetch makes at most two sends.  Two sends happen only as a failed
\* direct send followed by one send through the configured proxy, and they
\* do happen when the proxy address is usable; a send through the proxy is
\* always the last one; and a fetch whose last send failed ends with
\* NetworkError.
C3_DirectThenProxyOnce ==
    IsHttpCall =>
        /\ Len(out.sends) <= 2
        /\ Len(out.sends) = 2
              => /\ out.sends[1].via = "direct"
                 /\ out.sends[2].via = "proxy"
                 /\ ~http.should_use_proxy
                 /\ IsSome(http.proxy)
                 /\ ~out.net.direct
        /\ \A i \in 1..Len(out.sends) :
              out.sends[i].via = "proxy" => i = Len(out.sends)
        /\ (/\ Len(out.sends) >= 1 /\ out.sends[1].via = "direct"
            /\ ~out.net.direct /\ http.proxy = Some(ProxyAddr)
            /\ out.net.build2)
              => Len(out.sends) = 2
        /\ (Len(out.sends) > 0 /\ ~GotResponse) => out.res = Err("R")

\* C3 witness: the direct send failed, the one retry through the proxy
\* failed too, and the fetch ended with NetworkError.
C3_Witness ==
    /\ IsHttpCall
    /\ Len(out.sends) = 2
    /\ out.sends[1].via = "direct" /\ out.sends[2].via = "proxy"
    /\ ~out.net.direct /\ ~out.net.proxied
    /\ out.res = Err("R")

\* C4: once a response has arrived, the fetch fails with SizeLimitExceeded
\* exactly when a ceiling is configured, the response declares a length and
\* that length is greater than the ceiling, and then without a body read;
\* otherwise the body is read in full.
C4_SizeCeilingExact ==
    (IsHttpCall /\ GotResponse) =>
        LET over == /\ IsSome(http.size_limit_bytes)
                    /\ IsSome(out.net.declared)
                    /\ Unwrap(out.net.declared) > Unwrap(http.size_limit_bytes)
        IN /\ (out.res = Err("S")) <=> over
           /\ over => ~out.bodyRead
           /\ (~over /\ out.net.readable)
                 => out.res = Ok(out.net.body) /\ out.bodyRead

----------------------------------------------------------------------------
(* Claims about the DataSource lookup, checked under ResolveSpec *)

IsLookup == out.op \in {"get_file_content", "get_file_content_async"}

\* What is at the name in the k-th listed directory
Listed(k) == EntryAt(disk, Join(ds.dirs[k], file_name))

\* A regular file is at the name in the k-th listed directory and in no
\* other listed directory.
FileOnlyIn(k) ==
    /\ Listed(k).kind = "file"
    /\ \A j \in 1..Len(ds.dirs) :
          ds.dirs[j] # ds.dirs[k] => Listed(j).kind # "file"

\* Nothing at all is at the name in the directories listed before the first
\* place of the k-th directory in the list.
NothingBefore(k) ==
    \A j \in 1..(k - 1) :
        (\A i \in 1..j : ds.dirs[i] # ds.dirs[k]) => ~Exists(Listed(j))

\* C9 as stated: a file present only in Dk is returned with provenance Dk,
\* whatever the other directories contain.
C9_OnlyCopyFound ==
    (IsLookup /\ ds.variant = "Folders" /\ ~out.gone)
    => \A k \in 1..Len(ds.dirs) :
          FileOnlyIn(k)
          => out.res = OkFrom(Listed(k).content, Some(ds.dirs[k]))

\* C9 amended: a file present only in Dk is returned with provenance Dk
\* provided no directory listed before Dk holds an entry of another kind
\* (such as a subdirectory) under that name; when one does, the lookup
\* fails with IoError.
C9_OnlyCopyFoundUnlessShadowed ==
    (IsLookup /\ ds.variant = "Folders" /\ ~out.gone)
    => \A k \in 1..Len(ds.dirs) :
          FileOnlyIn(k)
          => /\ NothingBefore(k)
                  => out.res = OkFrom(Listed(k).content, Some(ds.dirs[k]))
             /\ ~NothingBefore(k) => out.res = Err("I")

\* C9 witness: the file is only in the second listed directory, another
\* directory holds a file of that name too but is not listed, and the lookup
\* returned the copy of the second directory.
C9_Witness ==
    /\ IsLookup /\ ds.variant = "Folders" /\ ~out.gone
    /\ Len(ds.dirs) = 2 /\ ds.dirs[1] # ds.dirs[2]
    /\ FileOnlyIn(2) /\ NothingBefore(2)
    /\ Len(Listed(2).content) > 0
    /\ \E d \in Dirs :
          /\ \A j \in 1..Len(ds.dirs) : ds.dirs[j] # d
          /\ EntryAt(disk, Join(d, file_name)).kind = "file"
          /\ EntryAt(disk, Join(d, file_name)).content # Listed(2).content
    /\ out.res = OkFrom(Listed(2).content, Some(ds.dirs[2]))

\* C10: a Folders lookup of a name that no listed directory holds fails with
\* NotFoundInDirectories carrying the configured list, in its order, the
\* empty list included; a FileMap lookup of a key the map does not hold
\* fails with NotFound, having tested and read no path, sent nothing and left
\* the cache alone.
C10_MissesAreNotFound ==
    IsLookup =>
        /\ (/\ ds.variant = "Folders"
            /\ \A k \in 1..Len(ds.dirs) : ~Exists(Listed(k)))
              => /\ out.res = ErrNFD(ds.dirs)
                 /\ out.reads = <<>>
        /\ (ds.variant = "FileMap" /\ file_name \notin DOMAIN ds.map)
              => /\ out.res = Err("NF")
                 /\ out.probes = <<>>
                 /\ out.reads = <<>>
                 /\ out.sends = <<>>
                 /\ out.cache = NoCacheUse(cacheFile)

\* C10 witness: two directories were listed, the name was in neither (but in
\* an unlisted one), and the error carries the two in their order.
C10_Witness ==
    /\ IsLookup /\ ds.variant = "Folders"
    /\ Len(ds.dirs) = 2 /\ ds.dirs[1] # ds.dirs[2]
    /\ \A k \in 1..Len(ds.dirs) : ~Exists(Listed(k))
    /\ \E d \in Dirs : Exists(EntryAt(disk, Join(d, file_name)))
    /\ out.res = ErrNFD(<<ds.dirs[1], ds.dirs[2]>>)
    /\ Len(out.probes) = 2

----------------------------------------------------------------------------
(* Claims about archives, FileMap entries and the file server, checked under
   ResolveSpec *)

\* The entries of the archive whose path equals the looked-up name
TarHits == {i \in 1..Len(ds.tar) : PathEq(ds.tar[i].path, file_name)}

C12_TarMissIsNotFound ==
    (IsLookup /\ ds.variant = "Tar" /\ TarHits = {}) => out.res = Err("NF")

\* C13: a lookup of a key the FileMap holds returns, for an Inline entry,
\* the stored bytes with no provenance, having tested and read no path, sent
\* nothing and left the cache alone; for a FilePath entry whose file is
\* there, the bytes of the file as they are at the call, with the configured
\* path as provenance.
C13_FileMapEntries ==
    (IsLookup /\ ds.variant = "FileMap" /\ file_name \in DOMAIN ds.map) =>
        LET sf == ds.map[file_name]
            f == EntryAt(disk, Plain(sf.path))
        IN /\ sf.kind = "Inline" =>
                /\ out.res = OkFrom(sf.bytes, None)
                /\ out.probes = <<>> /\ out.reads = <<>> /\ out.sends = <<>>
                /\ out.cache = NoCacheUse(cacheFile)
           /\ (sf.kind = "FilePath" /\ f.kind = "file") =>
                /\ out.res = OkFrom(f.content, Some(sf.path))
                /\ out.reads = <<Plain(sf.path)>>
                /\ out.cache = NoCacheUse(cacheFile)

\* C13 witness: the key names a FilePath entry, the other key an Inline one,
\* the file holds a byte, and the lookup returned it with the path.
C13_Witness ==
    /\ IsLookup /\ ds.variant = "FileMap"
    /\ DOMAIN ds.map = Names
    /\ ds.map[file_name].kind = "FilePath"
    /\ \E n \in Names : ds.map[n].kind = "Inline"
    /\ EntryAt(disk, Plain(FilePathName)).content # <<>>
    /\ out.res = OkFrom(EntryAt(disk, Plain(FilePathName)).content,
                        Some(FilePathName))

IsServed == out.op = "call"

\* C14: for a GET or HEAD request, DataSourceService answers a lookup that
\* failed with NotFound or NotFoundInDirectories with 404, one that failed
\* with SizeLimitExceeded with 413, one that failed with any other error
\* kind (NetworkError, IoError, TimeError, NoCacheFile) with 500, and one
\* that succeeded with 200 and exactly the resolved bytes as the body.
C14_StatusMapping ==
    IsServed =>
        /\ out.method \in {"GET", "HEAD"}
        /\ (IsErr(out.res, "NF") \/ IsErr(out.res, "NFD"))
              => out.status = 404
        /\ IsErr(out.res, "S") => out.status = 413
        /\ (\E k \in {"R", "I", "T", "NC"} : IsErr(out.res, k))
              => out.status = 500
        /\ IsOk(out.res) => (out.status = 200 /\ out.body = out.res.val)
        /\ out.res.tag \in {"Ok", "Err"}

\* C14 witness: a HEAD request whose lookup failed with SizeLimitExceeded was
\* answered with 413.
C14_Witness ==
    /\ IsServed /\ out.method = "HEAD"
    /\ IsErr(out.res, "S") /\ out.status = 413


----------------------------------------------------------------------------
(* Claims about direct cache operations, checked under Spec *)

IsCacheOp ==
    out.op \in {"read_cache_file", "read_cache_file_async",
                "write_cache_file", "write_cache_file_async"}

\* C15: a direct read or write of the cache file (sync or async) on a
\* FileCache that has no cache path ends with NoCacheFile (FetchError::NC) as
\* a returned value.
C15_NoPathIsNoCacheFile ==
    (IsCacheOp /\ ~IsSome(fc.cache_file_path)) => out.res = Err("NC")


----------------------------------------------------------------------------
(* Further claims about the Folders lookup (ResolveSpec) and the cache gate
   (Spec) *)

\* The listed directories whose joined path exists
FoldersHits == {k \in 1..Len(ds.dirs) : Exists(Listed(k))}

\* C16: in a Folders lookup the directories are tested in list order and the
\* first one whose joined path exists decides: when the read of that path
\* succeeds the result is its bytes with that directory as provenance,
\* whatever later directories hold; when it fails (the path is a directory,
\* or it was removed after the existence test) the result is IoError; no
\* directory after it is tested or read.
C16_FirstExistingDecides ==
    (IsLookup /\ ds.variant = "Folders" /\ FoldersHits # {}) =>
        LET i == CHOOSE k \in FoldersHits : \A j \in FoldersHits : k <= j
            f == Listed(i)
        IN /\ out.probes = [j \in 1..i |-> Join(ds.dirs[j], file_name)]
           /\ out.reads = <<Join(ds.dirs[i], file_name)>>
           /\ IF f.kind = "file" /\ ~out.gone
                THEN out.res = OkFrom(f.content, Some(ds.dirs[i]))
                ELSE out.res = Err("I")

\* C16 witness: the first existing candidate could not be read, a later
\* listed directory holds the file, and the lookup failed with IoError
\* without testing that later directory.
C16_Witness ==
    /\ IsLookup /\ ds.variant = "Folders"
    /\ \E i, k \in FoldersHits :
          /\ i < k /\ \A j \in FoldersHits : i <= j
          /\ ds.dirs[i] # ds.dirs[k]
          /\ Listed(k).kind = "file"
          /\ Len(out.probes) = i
    /\ out.res = Err("I")

\* The call started from an existing cache file whose modification time is
\* later than the clock.
MtimeInFuture ==
    /\ IsSome(fc.cache_file_path)
    /\ Exists(out.before)
    /\ out.before.mtime > out.at

\* C17: when the cache file exists with a modification time later than the
\* current time and a refresh interval is set, the freshness check fails with
\* TimeError and the call returns that error without calling the source,
\* reading the cache or writing it; with no refresh interval the time is not
\* compared and the same file is Fresh.
C17_ClockAnomaly ==
    (IsCacheCall /\ MtimeInFuture) =>
        IF HasInterval
          THEN /\ out.decision = Err("T")
               /\ out.res = Err("T")
               /\ out.srcCalls = 0 /\ out.reads = 0 /\ out.writes = 0
               /\ cacheFile = out.before
          ELSE /\ out.decision = Fresh
               /\ out.srcCalls = 0 /\ out.reads = 1 /\ out.writes = 0

\* C17 witness: a regular cache file dated after the clock, an interval set,
\* and the call ended with TimeError.
C17_Witness ==
    /\ IsCacheCall /\ MtimeInFuture /\ HasInterval
    /\ out.before.kind = "file"
    /\ out.res = Err("T")

\* C18: when the decision is Stale or Absent and the source fails (with
\* NetworkError or SizeLimitExceeded), the call returns that error, writes
\* nothing and leaves the cache file as it was; hence whatever a call leaves
\* in the cache file is the bytes that its fetch returned successfully.
C18_CacheHoldsFetchedBytes ==
    IsCacheCall =>
        /\ (/\ out.decision \in {Stale, AbsentDecision}
            /\ out.src \in {Err("R"), Err("S")})
              => /\ out.res = out.src
                 /\ out.writes = 0
                 /\ cacheFile = out.before
        /\ cacheFile # out.before
              => /\ IsOk(out.src)
                 /\ cacheFile.content = out.src.val


----------------------------------------------------------------------------
(* Claims about concurrent callers (ConcSpec) and about the sync and async
   forms (LayersSpec) *)

\* C19: with several callers sharing one cached remote entry, in every
\* interleaving of their steps (existence test, freshness test, cache read,
\* remote fetch, and a cache write that first empties the file and then
\* fills it), a call that ends with Ok returns a complete body: a complete
\* response of the remote endpoint or a complete earlier cached copy, never
\* an empty or partly written cache file.
C19_CompleteBodies ==
    \A c \in DOMAIN callers :
        (callers[c].pc = "done" /\ IsOk(callers[c].ret))
            => callers[c].ret.val \in RemoteBodies


----------------------------------------------------------------------------
(* Claims about aborts (LayersSpec) and about the list of directories
   (ResolveSpec) *)

\* C21: every fetch ends with a value.  For every HttpSource configuration
\* and every behaviour of the network, fetch and fetch_async return bytes or
\* a FetchError, and for every FileCache configuration fetch_with_cache and
\* fetch_with_cache_async do so whenever the source they call does; no
\* configuration makes them abort, in particular should_use_proxy set with no
\* proxy address.
C21_NoAbort ==
    /\ IsHttpCall => out.res.tag \in {"Ok", "Err"}
    /\ (IsCacheCall /\ out.src # Panic) => out.res.tag \in {"Ok", "Err"}


IsInsert == out.op = "insert_current_working_dir"

\* A name found in a directory of the list before the call resolves after
\* the call as it did before it, whatever the environment does to the
\* lookup.
ConfiguredNotShadowed ==
    \A inp \in LookupInputs(out.before, file_name) :
        LET old == get_file_content(out.before, file_name, Env(inp))
        IN old.res # ErrNFD(out.before.dirs)
             => get_file_content(ds, file_name, Env(inp)) = old

\* C22 as stated: insert_current_working_dir on a Folders resolver adds
\* exactly one entry, the current working directory, at the end of the list,
\* keeping the entries there and their order, so that a file found in a
\* configured directory is not shadowed; on every other variant it changes
\* nothing and returns Ok.
C22_AppendsWorkingDir ==
    IsInsert =>
        IF out.before.variant = "Folders"
          THEN /\ ds = Folders(Append(out.before.dirs, out.cwd.path))
               /\ ConfiguredNotShadowed
          ELSE ds = out.before /\ out.res = Ok(<<>>)

\* C22, amended: when the working directory can be determined, the call on
\* a Folders resolver adds exactly one entry at the end of the list, the
\* working directory as a string (with U+FFFD for what is not UTF-8), and
\* returns Ok; when it cannot, the call returns the I/O error and leaves the
\* list as it is.  Either way the entries there and their order are kept and
\* a file found in a configured directory is not shadowed.  On every other
\* variant the call changes nothing and returns Ok.
C22_AppendsWorkingDirIfKnown ==
    IsInsert =>
        IF out.before.variant = "Folders"
          THEN /\ IF out.cwd.ok
                    THEN /\ ds = Folders(Append(out.before.dirs,
                                                to_string_lossy(out.cwd.path)))
                         /\ out.res = Ok(<<>>)
                    ELSE ds = out.before /\ out.res.tag = "Err"
               /\ SubSeq(ds.dirs, 1, Len(out.before.dirs)) = out.before.dirs
               /\ ConfiguredNotShadowed
          ELSE ds = out.before /\ out.res = Ok(<<>>)

\* C22 witness: the working directory was added after two configured
\* directories; it holds the name too, with other content than the second
\* configured directory, which is where the name is found.
C22_Witness ==
    /\ IsInsert /\ out.before.variant = "Folders" /\ out.cwd.ok
    /\ Len(out.before.dirs) = 2 /\ Len(ds.dirs) = 3
    /\ \A k \in 1..2 : ds.dirs[k] # ds.dirs[3]
    /\ ~Exists(Listed(1))
    /\ Listed(2).kind = "file" /\ Listed(3).kind = "file"
    /\ Listed(2).content # Listed(3).content

====
